---- MODULE Spec2Model ----
(***************************************************************************)
(* A model of the two algorithms of main.c that the specification calls    *)
(* the core: the I2C clock-control search I2C_CalculateCCR and the         *)
(* printf-style formatter OutputText.                                      *)
(*                                                                         *)
(* uint32_t values that can exceed 2^31 - 1 (speed, error, value.ul) are   *)
(* kept as little-endian sequences of 16-bit limbs, so arithmetic on two   *)
(* limbs is arithmetic modulo 2^32 as on the STM8, and arithmetic on four  *)
(* limbs is exact for the results the claims compare against.              *)
(***************************************************************************)
EXTENDS Integers, Sequences, FiniteSets, TLC

\* ------------------------------------------------------------------------
\* Unsigned arithmetic on limbs
\* ------------------------------------------------------------------------

Base == 2^16

HalfBase == 2^15

\* A limb sequence written out as a tuple.
Limbs(f) == SubSeq(f, 1, Len(f))

\* The 32-bit pattern of n (two's complement for negative n), as two limbs.
U32(n) == <<n % Base, (n \div Base) % Base>>

\* Zero-extension (or truncation) of a limb sequence to n limbs.
Ext(v, n) == Limbs([j \in 1..n |-> IF j <= Len(v) THEN v[j] ELSE 0])

\* The value of a two-limb number that is below 2^31.
Nat32(a) == a[2] * Base + a[1]

Zero32 == <<0, 0>>

\* a < b, for numbers of equally many limbs.
BLt(a, b) ==
    \E j \in 1..Len(a) :
        /\ a[j] < b[j]
        /\ \A k \in (j + 1)..Len(a) : a[k] = b[k]

RECURSIVE Borrow(_, _, _)
Borrow(a, b, j) ==
    IF j = 0 THEN 0
    ELSE IF a[j] - b[j] - Borrow(a, b, j - 1) < 0 THEN 1 ELSE 0

\* a - b modulo Base^Len(a): unsigned subtraction wraps.
BSub(a, b) ==
    Limbs([j \in 1..Len(a) |-> (a[j] - b[j] - Borrow(a, b, j - 1)) % Base])

RECURSIVE MulCarry(_, _, _, _)
MulCarry(a, k, c, j) ==
    IF j = 0 THEN c
    ELSE (a[j] * k + MulCarry(a, k, c, j - 1)) \div Base

\* a * k + c modulo Base^Len(a), for k and c below 2^14.
BMulAdd(a, k, c) ==
    Limbs([j \in 1..Len(a) |->
              (a[j] * k + MulCarry(a, k, c, j - 1)) % Base])

\* a * k modulo Base^Len(a): unsigned multiplication wraps.
BMulSmall(a, k) == BMulAdd(a, k, 0)

\* (a << 1) | bit, modulo Base^Len(a).
BShl1(a, bit) == BMulAdd(a, 2, bit)

\* Bit k (0 = least significant) of a.
BBit(a, k) == (a[(k \div 16) + 1] \div (2^(k % 16))) % 2

\* Hexadecimal digit k (0 = least significant) of a.
BNibble(a, k) == (a[(k \div 4) + 1] \div (16^(k % 4))) % 16

\* Long division in base 16: qr[k] is the quotient and remainder <<q, r>>
\* once the hexadecimal digits of a from the most significant down to
\* digit k are brought down.  The remainder carries one limb more than a.
BDivMod(a, b) ==
    LET n  == Len(a)
        bb == Ext(b, n + 1)
        qr[k \in 0..(4 * n)] ==
            IF k = 4 * n THEN <<Ext(<<>>, n), Ext(<<>>, n + 1)>>
            ELSE LET p  == qr[k + 1]
                     r2 == BMulAdd(p[2], 16, BNibble(a, k))
                     g  == CHOOSE d \in 0..15 :
                               /\ ~BLt(r2, BMulSmall(bb, d))
                               /\ BLt(r2, BMulSmall(bb, d + 1))
                 IN  <<BMulAdd(p[1], 16, g), BSub(r2, BMulSmall(bb, g))>>
    IN  qr[0]

\* a / b, truncating, for b # 0.
BDiv(a, b) == BDivMod(a, b)[1]

\* ------------------------------------------------------------------------
\* State
\* ------------------------------------------------------------------------

VARIABLES
    freq,           \* I2C_CalculateCCR: peripheral clock in MHz (uint8_t)
    speed,          \* requested speed in Hz (uint32_t, two limbs)
    i,              \* loop counter
    prev_speed_0,   \* speed calculated by the previous iteration
    ccr,            \* *ccr
    duty,           \* *duty
    actual,         \* *actual
    error,          \* *error (uint32_t, two limbs)
    cpc,            \* position in I2C_CalculateCCR: "loop" or "done"
    used,           \* history: the duty multipliers passed to CalcSpeed
    exit,           \* history: the return statement taken
    format,         \* OutputText: the format string, without its null
    args,           \* the variable arguments of the call
    fp,             \* the format pointer: index of the next character read
    ap,             \* the argument pointer: index of the next argument
    sink,           \* the bytes handed to OutputChar so far
    char_count,     \* uint16_t char_count
    tpc,            \* position in OutputText: "literal", "directive", "done"
    justify_left,
    zero_padding,
    prefix_sign,
    prefix_space,
    long_argument,
    char_argument,
    width,          \* uint8_t width
    decimals,       \* int8_t decimals
    buf_in,         \* circular_buffer_t: in
    buf_out,        \* circular_buffer_t: out
    buf_size,       \* circular_buffer_t: size (the size given, less one)
    buffer,         \* circular_buffer_t: the bytes buffer points to
    put_log,        \* history: the bytes passed to CircBuf_Put
    got_log,        \* history: the bytes returned by CircBuf_Get
    tien,           \* UART2->CR2, bit TIEN: transmit interrupt enabled
    txe,            \* UART2->SR, bit TXE: the data register is empty
    dr,             \* UART2->DR
    wire,           \* history: the bytes the shift register took from DR
    dr_log,         \* history: the bytes written to UART2->DR
    accepted,       \* history: the bytes Uart2_SendByte returned true for
    upc,            \* position of main: "main", "blocking" or "idle"
    ubyte,          \* the byte Uart2_BlockingSendByte was called with
    sent,           \* the value the last Uart2_SendByte returned
    tries,          \* history: calls made by the last Uart2_BlockingSendByte
    systick,        \* __IO uint16_t systick
    start,          \* *start of Systick_Timeout: the caller's variable
    period,         \* period of Systick_Timeout
    op,             \* the function that calls Systick_Timeout
    tkpc,           \* position: "test", "compare", "reset", "done", "idle"
    expired,        \* the value the last Systick_Timeout returned
    ready,          \* the status flag an I2C wait polls is in its ready state
    wait_result,    \* the value the I2C wait returned: "none", "true", "false"
    elapsed,        \* history: ticks since the call started
    compared        \* history: Systick_Timeout has read systick since the tick

ccrvars == <<freq, speed, i, prev_speed_0, ccr, duty, actual, error, cpc,
             used, exit>>

flagvars == <<justify_left, zero_padding, prefix_sign, prefix_space,
              long_argument, char_argument, width, decimals>>

textvars == <<format, args, fp, ap, sink, char_count, tpc, flagvars>>

bufvars == <<buf_in, buf_out, buf_size, buffer, put_log, got_log>>

uartvars == <<tien, txe, dr, wire, dr_log, accepted, upc, ubyte, sent,
              tries>>

tickvars == <<systick, start, period, op, tkpc, expired, ready, wait_result,
              elapsed, compared>>

iovars == <<bufvars, uartvars, tickvars>>

vars == <<ccrvars, textvars, iovars>>

\* ------------------------------------------------------------------------
\* I2C_CalculateCCR
\* ------------------------------------------------------------------------

\* Loop limit of both searches: for (i = 1; i < 4096; ++i).
CcrLimit == 4096

\* Regime threshold: if (speed > 100000).
FastThreshold == 100000

\* CalcSpeed with ccr * 1000 computed in 16 bits (int, without the UL).
CalcSpeedInt16(f, c, d) ==
    1000000000 \div ((((c * 1000) % (2^16)) \div f) * d)

\* 1000000000UL / (((ccr * 1000UL) / freq) * duty).  For ccr < 4096,
\* freq in 1..255 and duty <= 25 every intermediate value is below 2^31,
\* so no reduction modulo 2^32 takes place.
CalcSpeed(f, c, d) == 1000000000 \div (((c * 1000) \div f) * d)

\* ((req - act) * 10000) / req or ((act - req) * 10000) / req, in uint32_t.
CalcError(req, act) ==
    IF BLt(act, req)
    THEN BDiv(BMulSmall(BSub(req, act), 10000), req)
    ELSE BDiv(BMulSmall(BSub(act, req), 10000), req)

\* A regime test that sends the boundary speed to the fast loop.
IsFastModeInclusive(s) == ~BLt(s, U32(FastThreshold))

\* if (speed > 100000)
IsFastMode(s) == BLt(U32(FastThreshold), s)

\* An exact-match test that never succeeds.
SpeedMatchesNever(calc, s) == FALSE

\* if (calc_speed_0 == speed), if (calc_speed_1 == speed)
SpeedMatches(calc, s) == U32(calc) = s

\* A proximity test that lets the current speed win a tie.
CurrentIsCloserOrEqual(prev, s, calc) ==
    ~BLt(BSub(U32(prev), s), BSub(s, U32(calc)))

\* if ((prev_speed_0 - speed) > (speed - calc_speed_0)), in uint32_t.
CurrentIsCloser(prev, s, calc) ==
    BLt(BSub(s, U32(calc)), BSub(U32(prev), s))

Return(c, d, a, e, how) ==
    /\ ccr' = c
    /\ duty' = d
    /\ actual' = a
    /\ error' = e
    /\ exit' = how
    /\ cpc' = "done"
    /\ UNCHANGED <<i, prev_speed_0>>

\* A proximity decision that pairs the previous speed with the current
\* divider.
ReturnCloserSameDivider(calc_speed_0) ==
    IF CurrentIsCloser(prev_speed_0, speed, calc_speed_0)
    THEN Return(i, 0, calc_speed_0, CalcError(speed, U32(calc_speed_0)),
                "current")
    ELSE Return(i, 0, prev_speed_0, CalcError(speed, U32(prev_speed_0)),
                "previous")

\* The proximity decision shared by both loops, taken when
\* calc_speed_0 < speed.
ReturnCloser(calc_speed_0) ==
    IF CurrentIsCloser(prev_speed_0, speed, calc_speed_0)
    THEN Return(i, 0, calc_speed_0, CalcError(speed, U32(calc_speed_0)),
                "current")
    ELSE Return(i - 1, 0, prev_speed_0, CalcError(speed, U32(prev_speed_0)),
                "previous")

\* One iteration of the fast mode loop.
FastIteration ==
    /\ cpc = "loop"
    /\ IsFastMode(speed)
    /\ i < CcrLimit
    /\ LET calc_speed_0 == CalcSpeed(freq, i, 3)
           calc_speed_1 == CalcSpeed(freq, i, 25)
       IN  /\ used' = used \cup {3, 25}
           /\ IF SpeedMatches(calc_speed_0, speed)
              THEN Return(i, 0, calc_speed_0, Zero32, "exact0")
              ELSE IF SpeedMatches(calc_speed_1, speed)
              THEN Return(i, 1, calc_speed_1, Zero32, "exact1")
              ELSE IF BLt(U32(calc_speed_0), speed)
              THEN ReturnCloser(calc_speed_0)
              ELSE /\ prev_speed_0' = calc_speed_0
                   /\ i' = i + 1
                   /\ UNCHANGED <<ccr, duty, actual, error, cpc, exit>>
    /\ UNCHANGED <<freq, speed, textvars, iovars>>

\* One iteration of the standard mode loop.
StandardIteration ==
    /\ cpc = "loop"
    /\ ~IsFastMode(speed)
    /\ i < CcrLimit
    /\ LET calc_speed_0 == CalcSpeed(freq, i, 2)
       IN  /\ used' = used \cup {2}
           /\ IF SpeedMatches(calc_speed_0, speed)
              THEN Return(i, 0, calc_speed_0, Zero32, "exact0")
              ELSE IF BLt(U32(calc_speed_0), speed)
              THEN ReturnCloser(calc_speed_0)
              ELSE /\ prev_speed_0' = calc_speed_0
                   /\ i' = i + 1
                   /\ UNCHANGED <<ccr, duty, actual, error, cpc, exit>>
    /\ UNCHANGED <<freq, speed, textvars, iovars>>

\* The loop ran to its limit: no matching settings found.
NotFound ==
    /\ cpc = "loop"
    /\ i >= CcrLimit
    /\ Return(0, 0, 0, Zero32, "notfound")
    /\ UNCHANGED <<freq, speed, used, textvars, iovars>>

\* ---- the calls that are made ----

\* Number of low clock frequencies (1..MaxFreq MHz) tried beside the usual.
MaxFreq == 2

\* Largest divider whose exact speeds (and their neighbours) are requested.
MaxExactDivider == 2

Freqs == (1..MaxFreq) \cup {10, 16, 255}

\* The speeds of TestI2CSpeeds.
TestSpeeds ==
    {400000, 370000, 350000, 320000, 300000, 270000, 250000, 220000,
     200000, 170000, 150000, 120000, 100000, 50000, 30000, 20000}

\* Speeds around the regime boundary, between the two duty encodings, and
\* above the clock itself.
EdgeSpeeds == {1, 99999, 100001, 321000, 16000000, 2147483647}

\* Speeds in the upper half of the uint32_t range:
\* 2207483648, 3000000000, 4294967295.
HighSpeeds == {<<34560, 33683>>, <<24064, 45776>>, <<65535, 65535>>}

ExactDividers == (1..MaxExactDivider) \cup {13, 80, 4095}

\* Speeds that some divider reaches exactly, and the speeds next to them.
NearExactSpeeds(f) ==
    {CalcSpeed(f, c, m) + d : c \in ExactDividers, m \in {2, 3, 25},
                              d \in {-1, 0, 1}}

\* Dividers c for which the speeds halfway between the frequencies of c
\* and c + 1 are requested.
MidDividers == {7, 11, 16, 51, 82, 1275}

\* Speeds halfway between the frequencies of two successive dividers.
MidpointSpeeds(f) ==
    {((CalcSpeed(f, c, m) + CalcSpeed(f, c + 1, m)) \div 2) + d :
        c \in MidDividers, m \in {2, 3}, d \in {0, 1}}

\* Largest clock frequency in MHz the uint8_t parameter freq can hold.
MaxClock == 255

\* The speeds requested of the clock f: many of the clocks in Freqs, the
\* lowest speed alone (which takes the search through every divider) of
\* every other clock.
RequestedSpeeds(f) ==
    IF f \in Freqs
    THEN {U32(s) : s \in TestSpeeds \cup EdgeSpeeds \cup NearExactSpeeds(f)
                            \cup MidpointSpeeds(f)}
             \cup HighSpeeds
    ELSE {U32(1)}

CcrNext ==
    \/ FastIteration
    \/ StandardIteration
    \/ NotFound

\* ------------------------------------------------------------------------
\* OutputText: characters and the pure parts of the conversions
\* ------------------------------------------------------------------------

\* The printable ASCII characters, from code 32 (space) to code 126; the
\* four that a TLA+ string cannot hold plainly are spelled out.
Printable ==
    <<" ", "!", "quote", "#", "$", "%", "&", "apostrophe", "(", ")", "*", "+", ",", "-",
      ".", "/", "0", "1", "2", "3", "4", "5", "6", "7", "8", "9", ":", ";",
      "<", "=", ">", "?", "@", "A", "B", "C", "D", "E", "F", "G", "H", "I",
      "J", "K", "L", "M", "N", "O", "P", "Q", "R", "S", "T", "U", "V", "W",
      "X", "Y", "Z", "[", "backslash", "]", "^", "_", "grave", "a", "b", "c", "d", "e",
      "f", "g", "h", "i", "j", "k", "l", "m", "n", "o", "p", "q", "r", "s",
      "t", "u", "v", "w", "x", "y", "z", "{", "|", "}", "~">>

\* The character code of a one-character string.
Code(ch) == 31 + CHOOSE k \in 1..Len(Printable) : Printable[k] = ch

\* The bytes of a text given as a tuple of one-character strings.
Text(t) == [k \in 1..Len(t) |-> Code(t[k])]

Nul == 0

Percent == Code("%")

Space == Code(" ")

Repeat(c, n) == [k \in 1..n |-> c]

\* bool IsDigit(char c)
IsDigit(c) == c >= Code("0") /\ c <= Code("9")

\* uint16_t StringLength(const char *str), for a string without its null.
StringLength(str) == Len(str) % (2^16)

\* A value converted to uint8_t.
ToUint8(n) == n % 256

\* A value converted to int8_t (two's complement truncation).
ToInt8(n) == IF n % 256 >= 128 THEN (n % 256) - 256 ELSE n % 256

\* a | b on bytes.
RECURSIVE Or8Bits(_, _, _)
Or8Bits(a, b, k) ==
    IF k = 8 THEN 0
    ELSE (IF (a \div (2^k)) % 2 = 1 \/ (b \div (2^k)) % 2 = 1 THEN 2^k ELSE 0)
         + Or8Bits(a, b, k + 1)

Or8(a, b) == Or8Bits(a, b, 0)

\* The signedness of plain char: SDCC's default, no --fsigned-char is given.
PlainCharSigned == FALSE

\* value.l = va_arg(ap, char), with the mask of the unsigned conversions.
CharArgument(raw, signed) ==
    IF PlainCharSigned /\ signed THEN U32(ToInt8(raw)) ELSE U32(raw % 256)

\* value.l = va_arg(ap, int) (16 bits), with the mask of the unsigned
\* conversions.
IntArgument(raw, signed) ==
    IF signed /\ raw % (2^16) >= 2^15
    THEN U32((raw % (2^16)) - 2^16)
    ELSE U32(raw % (2^16))

\* value.l = va_arg(ap, long).
LongArgument(raw) == U32(raw)

\* value.l < 0
IsNegative32(v) == v[2] >= HalfBase

\* The inner loop of the radix conversion: i more rounds of shifting the
\* top bit of value.ul into value.b[4] and subtracting the radix from it.
\* The result is <<value.ul, value.b[4]>>.
RECURSIVE ShiftSubtract(_, _, _, _)
ShiftSubtract(ul, b4, rdx, n) ==
    IF n = 0 THEN <<ul, b4>>
    ELSE LET shifted == ToUint8(b4 * 2 + BBit(ul, 31))
             ul2     == BShl1(ul, 0)
         IN  IF rdx <= shifted
             THEN ShiftSubtract(<<ul2[1] + 1, ul2[2]>>, shifted - rdx, rdx,
                                n - 1)
             ELSE ShiftSubtract(ul2, shifted, rdx, n - 1)

\* The outer loop of the radix conversion: one digit per round, packed two
\* to a byte into store (indices 0..5, kept at positions 1..6), from
\* store[5] downwards.
RECURSIVE ExtractDigits(_, _, _, _, _, _)
ExtractDigits(ul, rdx, store, pstore, lsd, length) ==
    LET r      == ShiftSubtract(ul, 0, rdx, 32)
        b4     == r[2]
        store2 == IF ~lsd
                  THEN [store EXCEPT ![pstore + 1] =
                           Or8(Or8(ToUint8(b4 * 16), b4 \div 16), @)]
                  ELSE [store EXCEPT ![pstore + 1] = b4]
        next   == IF ~lsd THEN pstore - 1 ELSE pstore
    IN  IF r[1] # Zero32
        THEN ExtractDigits(r[1], rdx, store2, next, ~lsd, length + 1)
        ELSE [store |-> store2, pstore |-> next, lsd |-> ~lsd,
              length |-> length + 1]

\* A digit output that uses lowercase letters above 9.
DigitCodeLower(b4) ==
    IF b4 + Code("0") > Code("9")
    THEN ToUint8(b4 + Code("0") + (Code("a") - Code("0") - 10))
    ELSE b4 + Code("0")

\* d = value.b[4] + '0'; if (d > '9') d += ('A' - '0' - 10);
DigitCode(b4) ==
    IF b4 + Code("0") > Code("9")
    THEN ToUint8(b4 + Code("0") + (Code("A") - Code("0") - 10))
    ELSE b4 + Code("0")

\* The digit output loop: the characters of length digits read back from
\* store, most significant first.
RECURSIVE DigitText(_, _, _, _)
DigitText(store, pstore, lsd, length) ==
    IF length = 0 THEN <<>>
    ELSE LET lsd2 == ~lsd
             p2   == IF ~lsd2 THEN pstore + 1 ELSE pstore
             b4   == IF ~lsd2 THEN store[p2 + 1] \div 16
                              ELSE store[p2 + 1] % 16
         IN  <<DigitCode(b4)>> \o DigitText(store, p2, lsd2, length - 1)

\* A count of leading spaces that leaves no room for the sign.
LeadingSpacesNoSignRoom(w, length, zero_pad, left) ==
    IF ~zero_pad /\ ~left /\ w > length THEN w - length ELSE 0

\* if (!zero_padding && !justify_left) while (width > (length + 1)): the
\* number of spaces sent before the sign.
LeadingSpaces(w, length, zero_pad, left) ==
    IF ~zero_pad /\ ~left /\ w > length + 1 THEN w - (length + 1) ELSE 0

\* The sign character sent, if any: '-', or '+' or ' ' as the flags ask.
SignChars(negative, length, plus, blank) ==
    IF negative THEN <<Code("-")>>
    ELSE IF length # 0 /\ plus THEN <<Code("+")>>
    ELSE IF length # 0 /\ blank THEN <<Space>>
    ELSE <<>>

\* A padding that is always made of spaces.
PadCharAlwaysSpace(zero_pad) == Space

\* zero_padding ? '0' : ' '
PadChar(zero_pad) == IF zero_pad THEN Code("0") ELSE Space

\* if (!justify_left) while (width > length): the number of padding
\* characters sent between sign and digits.
InnerPadding(w, length, left) ==
    IF ~left /\ w > length THEN w - length ELSE 0

\* A count of trailing spaces that forgets width -= length.
TrailingSpacesFullWidth(w, length, left) ==
    IF left /\ w > length THEN w ELSE 0

\* The else branch of if (!justify_left) and the final loop: the number of
\* spaces sent after the digits.
TrailingSpaces(w, length, left) ==
    IF left /\ w > length THEN w - length ELSE 0

\* The characters of an integer conversion: everything from the radix
\* conversion to the trailing spaces.  v is value.l after va_arg, signed
\* tells a d or i conversion, wid, zero_pad, left, plus and blank are width,
\* zero_padding, justify_left, prefix_sign and prefix_space, and stale is
\* the content of the uninitialised store.
IntegerText(v, signed, rdx, wid, zero_pad, left, plus, blank, stale) ==
    LET negative == signed /\ IsNegative32(v)
        ul     == IF negative THEN BSub(Zero32, v) ELSE v
        conv   == ExtractDigits(ul, rdx, Repeat(stale, 6), 5, TRUE, 0)
        length == conv.length
        w0     == IF wid = 0 THEN 1 ELSE wid
        lead   == LeadingSpaces(w0, length, zero_pad, left)
        w1     == w0 - lead
        sign   == SignChars(negative, length, plus, blank)
        w2     == ToUint8(w1 - Len(sign))
    IN  Repeat(Space, lead)
        \o sign
        \o Repeat(PadChar(zero_pad), InnerPadding(w2, length, left))
        \o DigitText(conv.store, conv.pstore, conv.lsd, length)
        \o Repeat(Space, TrailingSpaces(w2, length, left))

\* The characters of an s conversion of the string str (without its null);
\* wid, prec and left are width, decimals and justify_left.
StringText(str, wid, prec, left) ==
    LET length == ToUint8(StringLength(str))
        dec    == IF prec = -1 THEN ToInt8(length) ELSE prec
        shown  == IF dec <= 0 THEN 0
                  ELSE IF dec < Len(str) THEN dec ELSE Len(str)
        pad    == IF length < wid THEN wid - length ELSE 0
    IN  (IF ~left THEN Repeat(Space, pad) ELSE <<>>)
        \o SubSeq(str, 1, shown)
        \o (IF left THEN Repeat(Space, pad) ELSE <<>>)

\* ------------------------------------------------------------------------
\* OutputText: the scan of the format string
\* ------------------------------------------------------------------------

\* Number of reads past the terminating null that are followed.
MaxOverrun == 2

\* What a read past the terminating null can find.
OverrunBytes == {Nul, Percent, Code("d"), Code("z")}

\* What va_arg can yield once the arguments of the call are used up.
StrayInts == {0, -1}

StrayStrings == {<<>>, Text(<<"?">>)}

\* c = *format++ : the values the character read at index k can have.
FormatChar(k) ==
    IF k <= Len(format) THEN {format[k]}
    ELSE IF k = Len(format) + 1 THEN {Nul}
    ELSE OverrunBytes

CanRead == fp <= Len(format) + 1 + MaxOverrun

\* A va_arg that reads the first argument of the call every time.
NextIntFirst ==
    IF 1 <= Len(args) /\ args[1].kind = "int"
    THEN {args[1].int} ELSE StrayInts

\* va_arg(ap, char), va_arg(ap, int) or va_arg(ap, long).
NextInt ==
    IF ap <= Len(args) /\ args[ap].kind = "int"
    THEN {args[ap].int} ELSE StrayInts

\* va_arg(ap, ptr_t): the string pointed to, without its null.
NextString ==
    IF ap <= Len(args) /\ args[ap].kind = "str"
    THEN {args[ap].str} ELSE StrayStrings

\* The sink holds the bytes passed to OutputChar, in order, as runs
\* <<byte, count>> of equal bytes.
JoinRuns(a, b) ==
    IF a = <<>> THEN b
    ELSE IF b = <<>> THEN a
    ELSE IF a[Len(a)][1] = b[1][1]
         THEN SubSeq(a, 1, Len(a) - 1)
                  \o <<<<b[1][1], a[Len(a)][2] + b[1][2]>>>>
                  \o Tail(b)
         ELSE a \o b

\* The runs of out[lo..hi].
RECURSIVE Runs(_, _, _)
Runs(out, lo, hi) ==
    IF lo > hi THEN <<>>
    ELSE IF lo = hi THEN <<<<out[lo], 1>>>>
    ELSE JoinRuns(Runs(out, lo, (lo + hi) \div 2),
                  Runs(out, ((lo + hi) \div 2) + 1, hi))

\* The number of bytes in the runs r[lo..hi].
RECURSIVE RunsLength(_, _, _)
RunsLength(r, lo, hi) ==
    IF lo > hi THEN 0
    ELSE IF lo = hi THEN r[lo][2]
    ELSE RunsLength(r, lo, (lo + hi) \div 2)
             + RunsLength(r, ((lo + hi) \div 2) + 1, hi)

\* The number of bytes passed to OutputChar so far.
BytesSent == RunsLength(sink, 1, Len(sink))

\* void OutputChar(char ch), for each character of out in turn.
OutputChars(out) == sink' = JoinRuns(sink, Runs(out, 1, Len(out)))

\* An output that does not count the padding it sends.
EmitUncountedSpaces(out) ==
    /\ OutputChars(out)
    /\ char_count' =
           (char_count + Cardinality({k \in 1..Len(out) : out[k] # Space}))
               % (2^16)

\* OutputChar(c); ++char_count; for each character of out in turn.
Emit(out) ==
    /\ OutputChars(out)
    /\ char_count' = (char_count + Len(out)) % (2^16)

\* while (c = *format++) finds the terminating null: return char_count.
ScanEnd ==
    /\ tpc = "literal"
    /\ CanRead
    /\ \E c \in FormatChar(fp) : c = Nul
    /\ fp' = fp + 1
    /\ tpc' = "done"
    /\ UNCHANGED <<format, args, ap, sink, char_count, flagvars, ccrvars,
                   iovars>>

\* if (c != '%') at output_char: the character is copied.
ScanLiteral ==
    /\ tpc = "literal"
    /\ CanRead
    /\ \E c \in FormatChar(fp) :
           /\ c # Nul
           /\ c # Percent
           /\ Emit(<<c>>)
    /\ fp' = fp + 1
    /\ UNCHANGED <<format, args, ap, tpc, flagvars, ccrvars, iovars>>

\* A '%' opens a format specification: all flags and counters are reset.
ScanPercent ==
    /\ tpc = "literal"
    /\ CanRead
    /\ \E c \in FormatChar(fp) : c = Percent
    /\ fp' = fp + 1
    /\ justify_left' = FALSE
    /\ zero_padding' = FALSE
    /\ prefix_sign' = FALSE
    /\ prefix_space' = FALSE
    /\ long_argument' = FALSE
    /\ char_argument' = FALSE
    /\ width' = 0
    /\ decimals' = -1
    /\ tpc' = "directive"
    /\ UNCHANGED <<format, args, ap, sink, char_count, ccrvars, iovars>>

\* A double percent that takes an argument.
DirectivePercentTakesArgument ==
    /\ tpc = "directive"
    /\ CanRead
    /\ \E c \in FormatChar(fp) :
           /\ c = Percent
           /\ Emit(<<c>>)
    /\ fp' = fp + 1
    /\ ap' = ap + 1
    /\ tpc' = "literal"
    /\ UNCHANGED <<format, args, flagvars, ccrvars, iovars>>

\* next_format_char reads '%': a double percent is output as a single %.
DirectivePercent ==
    /\ tpc = "directive"
    /\ CanRead
    /\ \E c \in FormatChar(fp) :
           /\ c = Percent
           /\ Emit(<<c>>)
    /\ fp' = fp + 1
    /\ tpc' = "literal"
    /\ UNCHANGED <<format, args, ap, flagvars, ccrvars, iovars>>

\* A width digit that never sets the flag.
ZeroPaddingKept(flag, w) == flag

\* if (width == 0) zero_padding = true; after a width digit is added.
ZeroPaddingAfter(flag, w) == flag \/ w = 0

\* next_format_char reads a digit of the width or of the precision.
DirectiveDigit ==
    /\ tpc = "directive"
    /\ CanRead
    /\ \E c \in FormatChar(fp) :
           /\ IsDigit(c)
           /\ IF decimals = -1
              THEN /\ width' = ToUint8(10 * width + (c - Code("0")))
                   /\ zero_padding' = ZeroPaddingAfter(zero_padding, width')
                   /\ UNCHANGED decimals
              ELSE /\ decimals' = ToInt8(10 * decimals + (c - Code("0")))
                   /\ UNCHANGED <<width, zero_padding>>
    /\ fp' = fp + 1
    /\ UNCHANGED <<format, args, ap, sink, char_count, tpc, justify_left,
                   prefix_sign, prefix_space, long_argument, char_argument,
                   ccrvars, iovars>>

\* next_format_char reads '.': the precision follows.
DirectiveDot ==
    /\ tpc = "directive"
    /\ CanRead
    /\ \E c \in FormatChar(fp) : c = Code(".")
    /\ fp' = fp + 1
    /\ decimals' = 0
    /\ UNCHANGED <<format, args, ap, sink, char_count, tpc, justify_left,
                   zero_padding, prefix_sign, prefix_space, long_argument,
                   char_argument, width, ccrvars, iovars>>

\* The cases '-', '+', ' ', 'l' and 'b' of the switch.
DirectiveFlag ==
    /\ tpc = "directive"
    /\ CanRead
    /\ \E c \in FormatChar(fp) :
           /\ c \in {Code("-"), Code("+"), Space, Code("l"), Code("b")}
           /\ justify_left' = (justify_left \/ c = Code("-"))
           /\ prefix_sign' = (prefix_sign \/ c = Code("+"))
           /\ prefix_space' = (prefix_space \/ c = Space)
           /\ long_argument' = (long_argument \/ c = Code("l"))
           /\ char_argument' = (char_argument \/ c = Code("b"))
    /\ fp' = fp + 1
    /\ UNCHANGED <<format, args, ap, sink, char_count, tpc, zero_padding,
                   width, decimals, ccrvars, iovars>>

\* The cases 'd', 'i', 'p', 'u' and 'x' of the switch and the radix != 0
\* block after it.  The locals the block changes are dead until the next
\* '%' resets them, so the flags are left as they are.
ConvertInteger ==
    /\ tpc = "directive"
    /\ CanRead
    /\ \E c \in FormatChar(fp) : \E raw \in NextInt : \E stale \in {0, 255} :
           /\ c \in {Code("d"), Code("i"), Code("p"), Code("u"), Code("x")}
           /\ LET signed == c \in {Code("d"), Code("i")}
                  rdx    == IF c = Code("x") THEN 16 ELSE 10
                  v      == IF char_argument THEN CharArgument(raw, signed)
                            ELSE IF long_argument THEN LongArgument(raw)
                            ELSE IntArgument(raw, signed)
              IN  Emit(IntegerText(v, signed, rdx, width, zero_padding,
                                   justify_left, prefix_sign, prefix_space,
                                   stale))
    /\ fp' = fp + 1
    /\ ap' = ap + 1
    /\ tpc' = "literal"
    /\ UNCHANGED <<format, args, flagvars, ccrvars, iovars>>

\* The case 'c' of the switch.
ConvertChar ==
    /\ tpc = "directive"
    /\ CanRead
    /\ \E c \in FormatChar(fp) : \E raw \in NextInt :
           /\ c = Code("c")
           /\ Emit(<<ToUint8(raw)>>)
    /\ fp' = fp + 1
    /\ ap' = ap + 1
    /\ tpc' = "literal"
    /\ UNCHANGED <<format, args, flagvars, ccrvars, iovars>>

\* The case 's' of the switch.
ConvertString ==
    /\ tpc = "directive"
    /\ CanRead
    /\ \E c \in FormatChar(fp) : \E str \in NextString :
           /\ c = Code("s")
           /\ Emit(StringText(str, width, decimals, justify_left))
    /\ fp' = fp + 1
    /\ ap' = ap + 1
    /\ tpc' = "literal"
    /\ UNCHANGED <<format, args, flagvars, ccrvars, iovars>>

ConversionChars ==
    {Code("d"), Code("i"), Code("p"), Code("u"), Code("x"), Code("c"),
     Code("s")}

FlagChars == {Code("-"), Code("+"), Space, Code("l"), Code("b")}

\* A default case that drops the character it read.
DirectiveOtherDropped ==
    /\ tpc = "directive"
    /\ CanRead
    /\ \E c \in FormatChar(fp) :
           /\ c # Percent
           /\ ~IsDigit(c)
           /\ c # Code(".")
           /\ c \notin FlagChars
           /\ c \notin ConversionChars
           /\ Emit(<<>>)
    /\ fp' = fp + 1
    /\ tpc' = "literal"
    /\ UNCHANGED <<format, args, ap, flagvars, ccrvars, iovars>>

\* The default case of the switch: goto output_char with whatever was read,
\* the terminating null included.
DirectiveOther ==
    /\ tpc = "directive"
    /\ CanRead
    /\ \E c \in FormatChar(fp) :
           /\ c # Percent
           /\ ~IsDigit(c)
           /\ c # Code(".")
           /\ c \notin FlagChars
           /\ c \notin ConversionChars
           /\ Emit(<<c>>)
    /\ fp' = fp + 1
    /\ tpc' = "literal"
    /\ UNCHANGED <<format, args, ap, flagvars, ccrvars, iovars>>

\* ---- the calls that are made ----

IntArg(n) == [kind |-> "int", int |-> n, str |-> <<>>]

StrArg(str) == [kind |-> "str", int |-> 0, str |-> str]

Call(f, a) == [format |-> f, args |-> a]

\* Number of pieces in the calls put together from several pieces.
MaxPieces == 2

\* Number of "%255d" directives in the long call; 257 of them send 65535
\* characters.
LongRepeat == 258

FlagTexts == {<<>>, <<"-">>, <<"+">>, <<" ">>}

WidthTexts == {<<>>, <<"0">>, <<"5">>, <<"0", "5">>}

PrecisionTexts == {<<>>, <<".", "1">>}

LengthTexts == {<<>>, <<"l">>, <<"b">>}

\* Values of a long argument (0xDEADBEEF among them).  -2^31, whose
\* negation overflows, is left out.
LongValues == {0, 42, -42, -1, -559038737, 2147483647}

\* Values of an int argument (16 bits), signed or unsigned.
IntValues == {0, 42, -42, -1, 32767, -32768, 65535}

\* Values of a char argument.
CharValues == {0, 7, 65, 200}

StringValues ==
    {<<>>, Text(<<"h", "i">>), Text(<<"h", "e", "l", "l", "o", "!">>)}

\* The conversion characters with the arguments that fit them, and the
\* endings that take no argument: "%", an unknown character, and nothing
\* (the format ends inside the directive).
Endings(len) ==
    {<<<<cv>>, <<IntArg(n)>>>> :
        cv \in {"d", "u", "x"},
        n \in (IF len = <<"l">> THEN LongValues
               ELSE IF len = <<"b">> THEN CharValues ELSE IntValues)}
    \cup {<<<<"c">>, <<IntArg(n)>>>> : n \in {0, 65}}
    \cup {<<<<"s">>, <<StrArg(str)>>>> : str \in StringValues}
    \cup {<<<<"%">>, <<>>>>, <<<<"q">>, <<>>>>, <<<<>>, <<>>>>}

\* One directive, alone or between two literal characters.
DirectiveCalls ==
    UNION {{Call(Text(w[1] \o <<"%">> \o fl \o wd \o pr \o ln \o e[1] \o w[2]),
                 e[2]) :
               w \in {<<<<>>, <<>>>>, <<<<"A">>, <<"|">>>>},
               fl \in FlagTexts, wd \in WidthTexts, pr \in PrecisionTexts,
               e \in Endings(ln)} :
           ln \in LengthTexts}

\* Pieces of which longer calls are put together.
Pieces ==
    {Call(Text(<<"A">>), <<>>),
     Call(Text(<<"%", "%">>), <<>>),
     Call(Text(<<"%", "q">>), <<>>),
     Call(Text(<<"%", "d">>), <<IntArg(42)>>),
     Call(Text(<<"%", "i">>), <<IntArg(-7)>>),
     Call(Text(<<"%", "p">>), <<IntArg(7)>>),
     Call(Text(<<"%", "x">>), <<IntArg(255)>>),
     Call(Text(<<"%", "c">>), <<IntArg(66)>>),
     Call(Text(<<"%", "s">>), <<StrArg(Text(<<"h", "i">>))>>)}

RECURSIVE PieceCalls(_)
PieceCalls(n) ==
    IF n = 0 THEN {Call(<<>>, <<>>)}
    ELSE PieceCalls(n - 1)
         \cup {Call(c.format \o p.format, c.args \o p.args) :
                  c \in PieceCalls(n - 1), p \in Pieces}

\* Calls of main.c: OutputText("%08lx\r", i) and
\* OutputText("I2C kicked %d\r\n", ++counter).
SourceCalls ==
    {Call(Text(<<"%", "0", "8", "l", "x">>) \o <<13>>,
          <<IntArg(-559038737)>>),
     Call(Text(<<"I", "2", "C", " ", "k", "i", "c", "k", "e", "d", " ", "%",
                 "d">>) \o <<13, 10>>, <<IntArg(1)>>)}

\* Calls that print 0xDEADBEEF in eight hexadecimal digits, and a percent
\* sign after a number.
ExampleCalls ==
    {Call(Text(<<"%", "0", "8", "l", "x">>), <<IntArg(-559038737)>>),
     Call(Text(<<"1", "0", "0", "%", "%">>), <<>>)}

\* Calls whose width is larger than a uint8_t holds, or whose precision is
\* larger than an int8_t holds.
WideCalls ==
    {Call(Text(<<"%">> \o fl \o wd \o <<cv>>), <<IntArg(n)>>) :
        fl \in {<<>>, <<"-">>, <<"0">>},
        wd \in {<<"2", "5", "5">>, <<"2", "5", "6">>, <<"3", "0", "0">>,
                <<"2", "5", "6", "5">>},
        cv \in {"d", "x"}, n \in {7, -42}}
    \cup {Call(Text(<<"%">> \o fl \o <<".", "1", "2", "7", "9">> \o wd
                        \o <<"d">>), <<IntArg(7)>>) :
             fl \in {<<>>, <<"-">>}, wd \in {<<"0">>, <<"5">>, <<"0", "5">>}}

\* A call that sends more than 65535 characters.
LongCall ==
    Call([k \in 1..(5 * LongRepeat) |->
             Text(<<"%", "2", "5", "5", "d">>)[((k - 1) % 5) + 1]],
         [k \in 1..LongRepeat |-> IntArg(42)])

\* A call whose count is 65535 when a double percent and a literal
\* character are read.
WrapCall ==
    Call([k \in 1..(5 * (LongRepeat - 1)) |->
             Text(<<"%", "2", "5", "5", "d">>)[((k - 1) % 5) + 1]]
             \o Text(<<"%", "%", "A">>),
         [k \in 1..(LongRepeat - 1) |-> IntArg(42)])

Calls == DirectiveCalls \cup PieceCalls(MaxPieces) \cup SourceCalls
            \cup ExampleCalls \cup WideCalls \cup {LongCall, WrapCall}

TextNext ==
    \/ ScanEnd
    \/ ScanLiteral
    \/ ScanPercent
    \/ DirectivePercent
    \/ DirectiveDigit
    \/ DirectiveDot
    \/ DirectiveFlag
    \/ ConvertInteger
    \/ ConvertChar
    \/ ConvertString
    \/ DirectiveOther

\* ------------------------------------------------------------------------
\* The circular buffer
\* ------------------------------------------------------------------------

\* a & b of two 16-bit values, bit k upwards.
RECURSIVE And16Bits(_, _, _)
And16Bits(a, b, k) ==
    IF k = 16 THEN 0
    ELSE (IF (a \div (2^k)) % 2 = 1 /\ (b \div (2^k)) % 2 = 1 THEN 2^k ELSE 0)
         + And16Bits(a, b, k + 1)

\* a & b, where a and b are ints (16 bits, two's complement).
And16(a, b) == And16Bits(a % (2^16), b % (2^16), 0)

\* An index that is not wrapped at the end of the buffer.
NextIndexNoWrap(k, mask) == k + 1

\* (buf->in + 1) & buf->size and (buf->out + 1) & buf->size.
NextIndex(k, mask) == And16(k + 1, mask)

\* bool CircBuf_IsEmpty(circular_buffer_t *buf)
CircBuf_IsEmpty == buf_in = buf_out

\* bool CircBuf_IsFull(circular_buffer_t *buf)
CircBuf_IsFull == NextIndex(buf_in, buf_size) = buf_out

\* uint8_t CircBuf_Used(circular_buffer_t *buf)
CircBuf_Used == ToUint8(And16(buf_in - buf_out, buf_size))

\* What a division by zero can yield.
DivisionByZero == {0, 65535}

\* uint16_t CircBuf_PercentUsed(circular_buffer_t *buf): the values it can
\* return.
CircBuf_PercentUsed ==
    LET divisor == (CircBuf_Used * 100) \div (buf_size + 1)
    IN  IF divisor = 0 THEN DivisionByZero ELSE {10000 \div divisor}

\* The bytes put in a buffer.
Bytes == {65, 66}

\* The sizes a buffer is initialised with are 2^0 .. 2^MaxSizeLog.
MaxSizeLog == 2

\* The largest number of bytes put in a buffer.
MaxPuts == 6

\* Content of the memory the buffer pointer is given: static storage.
ZeroedArray(n) == [k \in 0..(n - 1) |-> 0]

\* void CircBuf_Init(circular_buffer_t *buf, uint8_t *buffer, uint8_t size)
CircBuf_Init(size) ==
    /\ buf_in = 0
    /\ buf_out = 0
    /\ buf_size = ToUint8(size - 1)
    /\ buffer = ZeroedArray(size)

\* buf->buffer[buf->in] = byte; buf->in = (buf->in + 1) & buf->size;
Put(byte) ==
    /\ buffer' = [buffer EXCEPT ![buf_in] = byte]
    /\ buf_in' = NextIndex(buf_in, buf_size)
    /\ put_log' = Append(put_log, byte)
    /\ UNCHANGED <<buf_out, buf_size, got_log>>

\* byte = buf->buffer[buf->out]; buf->out = (buf->out + 1) & buf->size;
Get ==
    /\ buf_out' = NextIndex(buf_out, buf_size)
    /\ got_log' = Append(got_log, buffer[buf_out])
    /\ UNCHANGED <<buf_in, buf_size, buffer, put_log>>

\* void CircBuf_Put(circular_buffer_t *buf, uint8_t byte), called when
\* CircBuf_IsFull is false.
CircBuf_Put ==
    /\ ~CircBuf_IsFull
    /\ Len(put_log) < MaxPuts
    /\ \E byte \in Bytes : Put(byte)
    /\ UNCHANGED <<ccrvars, textvars, uartvars, tickvars>>

\* uint8_t CircBuf_Get(circular_buffer_t *buf), called when CircBuf_IsEmpty
\* is false.
CircBuf_Get ==
    /\ ~CircBuf_IsEmpty
    /\ Get
    /\ UNCHANGED <<ccrvars, textvars, uartvars, tickvars>>

BufNext ==
    \/ CircBuf_Put
    \/ CircBuf_Get

\* ------------------------------------------------------------------------
\* UART2 transmission
\* ------------------------------------------------------------------------

\* The sizes of the transmit buffer: 2^1 .. 2^MaxSizeLog.  main gives it
\* 32 bytes; the functions treat every power of two alike.
TxBufferSizes == {2^k : k \in 1..MaxSizeLog}

\* The largest number of bytes accepted for transmission.
MaxSends == 8

\* The calls of Uart2_SendByte counted in one Uart2_BlockingSendByte.
MaxTries == 2

\* The byte of the next call: the bytes sent are 1, 2, 3, ..., so that a
\* byte lost, repeated or out of order shows.
NextByte == Len(accepted) + 1

\* UART2->DR = byte: TXE is cleared until the shift register takes the byte.
WriteDR(byte) ==
    /\ dr' = byte
    /\ txe' = FALSE
    /\ dr_log' = Append(dr_log, byte)
    /\ UNCHANGED wire

\* A test of TXE that always finds the data register empty.
DataRegisterEmptyAlways == TRUE

\* (UART2->SR & UARTx_SR_TXE_MASK) == UARTx_SR_TXE_READY
DataRegisterEmpty == txe

\* A test of the buffer that never finds it full.
TxBufferNeverFull == FALSE

\* CircBuf_IsFull(tx2_cirbuf) in Uart2_SendByte.
TxBufferFull == CircBuf_IsFull

\* The transmit interrupt is never requested.
TxInterruptNever == FALSE

\* The transmit interrupt is requested: TIEN and TXE are both set.
TxInterruptRequested == tien /\ txe

\* bool Uart2_SendByte(uint8_t byte) CRITICAL: the whole function, which
\* runs with interrupts disabled.
SendByte(byte) ==
    IF tien
    THEN IF TxBufferFull
         THEN /\ sent' = FALSE
              /\ UNCHANGED <<bufvars, tien, txe, dr, wire, dr_log, accepted>>
         ELSE /\ Put(byte)
              /\ sent' = TRUE
              /\ accepted' = Append(accepted, byte)
              /\ UNCHANGED <<tien, txe, dr, wire, dr_log>>
    ELSE IF DataRegisterEmpty
         THEN /\ WriteDR(byte)
              /\ sent' = TRUE
              /\ accepted' = Append(accepted, byte)
              /\ UNCHANGED <<bufvars, tien>>
         ELSE /\ Put(byte)
              /\ tien' = TRUE
              /\ sent' = TRUE
              /\ accepted' = Append(accepted, byte)
              /\ UNCHANGED <<txe, dr, wire, dr_log>>

\* main calls Uart2_SendByte.
Uart2_SendByte ==
    /\ upc = "main"
    /\ Len(accepted) < MaxSends
    /\ SendByte(NextByte)
    /\ UNCHANGED <<upc, ubyte, tries, ccrvars, textvars, tickvars>>

\* main calls Uart2_BlockingSendByte(byte).
Uart2_BlockingSendByte ==
    /\ upc = "main"
    /\ Len(accepted) < MaxSends
    /\ upc' = "blocking"
    /\ ubyte' = NextByte
    /\ tries' = 0
    /\ UNCHANGED <<bufvars, tien, txe, dr, wire, dr_log, accepted, sent,
                   ccrvars, textvars, tickvars>>

\* while (!Uart2_SendByte(byte)) { }
BlockingTry ==
    /\ upc = "blocking"
    /\ SendByte(ubyte)
    /\ upc' = IF sent' THEN "main" ELSE "blocking"
    /\ tries' = IF tries < MaxTries THEN tries + 1 ELSE tries
    /\ UNCHANGED <<ubyte, ccrvars, textvars, tickvars>>

\* A handler that leaves the transmit interrupt enabled.
UART2_TX_IRQHandlerStaysEnabled ==
    /\ TxInterruptRequested
    /\ WriteDR(buffer[buf_out])
    /\ Get
    /\ UNCHANGED <<tien, accepted, upc, ubyte, sent, tries, ccrvars,
                   textvars, tickvars>>

\* INTERRUPT(UART2_TX_IRQHandler, 20): runs between two steps of main.
UART2_TX_IRQHandler ==
    /\ TxInterruptRequested
    /\ WriteDR(buffer[buf_out])
    /\ Get
    /\ tien' = IF buf_in = buf_out' THEN FALSE ELSE tien
    /\ UNCHANGED <<accepted, upc, ubyte, sent, tries, ccrvars, textvars, tickvars>>

\* The hardware moves the byte of the data register to the shift register
\* and sets TXE.
TxComplete ==
    /\ ~txe
    /\ wire' = Append(wire, dr)
    /\ txe' = TRUE
    /\ UNCHANGED <<bufvars, tien, dr, dr_log, accepted, upc, ubyte, sent,
                   tries, ccrvars, textvars, tickvars>>

UartNext ==
    \/ Uart2_SendByte
    \/ Uart2_BlockingSendByte
    \/ BlockingTry
    \/ UART2_TX_IRQHandler
    \/ TxComplete

\* ------------------------------------------------------------------------
\* The system tick and the I2C waits
\* ------------------------------------------------------------------------

\* The width of int and unsigned int: sdcc -mstm8.
IntBits == 16

\* if (Systick_Timeout(&timeout, 100)) in the I2C functions.
WaitPeriod == 100

\* The largest number of ticks in one run.
MaxTicks == 102

\* The functions that poll a status flag with a timeout.
WaitOps ==
    {"I2C_Start", "I2C_SendAddress", "I2C_SendData", "I2C_ReceiveData",
     "I2C_Stop"}

\* Values of the tick counter at a call: far from and near to its wrap.
TickValues == {0, 40, 65500, 65535}

\* Periods of the direct calls of Systick_Timeout.
Periods == {0, 1, 3, 100}

\* t - n as a uint16_t.
Before(t, n) == (t + 2^16 - n) % (2^16)

\* What the caller's variable can hold at a direct call.
StartValues(t) == {0, t, Before(t, 2), Before(t, 99), Before(t, 65535)}

\* What the uninitialised uint16_t timeout of an I2C wait can hold.
StaleValues(t) ==
    {0, 65535, t, Before(t, 1), Before(t, 60), Before(t, 99), Before(t, 100),
     Before(t, 65535)}

\* a - b where int has 32 bits: both operands are promoted to int.
DifferenceInt32(a, b) == a - b

\* systick - *start: the uint16_t operands are promoted to unsigned int,
\* which has IntBits bits.
Difference(a, b) == (a - b) % (2^IntBits)

\* INTERRUPT(TIM4_UPD_OVF_IRQHandler, 23): ++systick.  The loops that poll
\* take far less than a tick: Systick_Timeout reads systick at least once
\* between two ticks.
TIM4_UPD_OVF_IRQHandler ==
    /\ tkpc \in {"test", "compare", "reset"}
    /\ compared
    /\ elapsed < MaxTicks
    /\ systick' = (systick + 1) % (2^16)
    /\ elapsed' = elapsed + 1
    /\ compared' = FALSE
    /\ UNCHANGED <<start, period, op, tkpc, expired, ready, wait_result,
                   ccrvars, textvars, bufvars, uartvars>>

\* The hardware brings the status flag to its ready state.
FlagReady ==
    /\ op \in WaitOps
    /\ tkpc \in {"test", "compare", "reset"}
    /\ ~ready
    /\ ready' = TRUE
    /\ UNCHANGED <<systick, start, period, op, tkpc, expired, wait_result,
                   elapsed, compared, ccrvars, textvars, bufvars, uartvars>>

\* while ((I2C->SR1 & MASK) == NOT_READY) of an I2C wait: return true when
\* the flag is ready.
TestFlag ==
    /\ tkpc = "test"
    /\ IF ready
       THEN /\ wait_result' = "true"
            /\ tkpc' = "done"
       ELSE /\ tkpc' = "compare"
            /\ UNCHANGED wait_result
    /\ UNCHANGED <<systick, start, period, op, expired, ready, elapsed,
                   compared, ccrvars, textvars, bufvars, uartvars>>

\* if (systick - *start >= period) of Systick_Timeout; return false when
\* it does not hold.
Compare ==
    /\ tkpc = "compare"
    /\ compared' = TRUE
    /\ IF Difference(systick, start) >= period
       THEN /\ tkpc' = "reset"
            /\ UNCHANGED expired
       ELSE /\ expired' = FALSE
            /\ tkpc' = IF op \in WaitOps THEN "test" ELSE "compare"
    /\ UNCHANGED <<systick, start, period, op, ready, wait_result, elapsed,
                   ccrvars, textvars, bufvars, uartvars>>

\* *start = systick; return true; and, in an I2C wait, return false.
Reset ==
    /\ tkpc = "reset"
    /\ start' = systick
    /\ expired' = TRUE
    /\ IF op \in WaitOps
       THEN /\ wait_result' = "false"
            /\ tkpc' = "done"
       ELSE /\ tkpc' = "compare"
            /\ UNCHANGED wait_result
    /\ UNCHANGED <<systick, period, op, ready, elapsed, compared, ccrvars,
                   textvars, bufvars, uartvars>>

TickNext ==
    \/ TIM4_UPD_OVF_IRQHandler
    \/ FlagReady
    \/ TestFlag
    \/ Compare
    \/ Reset

\* ------------------------------------------------------------------------
\* Specifications
\* ------------------------------------------------------------------------

\* Entry of I2C_CalculateCCR: the out-parameters are written before the
\* function returns and never read by it.  No call of OutputText is made.
InitCcr ==
    /\ freq \in 1..MaxClock
    /\ speed \in RequestedSpeeds(freq)
    /\ i = 1
    /\ prev_speed_0 = 0
    /\ ccr = 0
    /\ duty = 0
    /\ actual = 0
    /\ error = Zero32
    /\ cpc = "loop"
    /\ used = {}
    /\ exit = "none"
    /\ format = <<>>
    /\ args = <<>>
    /\ fp = 1
    /\ ap = 1
    /\ sink = <<>>
    /\ char_count = 0
    /\ tpc = "idle"
    /\ justify_left = FALSE
    /\ zero_padding = FALSE
    /\ prefix_sign = FALSE
    /\ prefix_space = FALSE
    /\ long_argument = FALSE
    /\ char_argument = FALSE
    /\ width = 0
    /\ decimals = -1
    /\ buf_in = 0
    /\ buf_out = 0
    /\ buf_size = 0
    /\ buffer = <<>>
    /\ put_log = <<>>
    /\ got_log = <<>>
    /\ tien = FALSE
    /\ txe = TRUE
    /\ dr = 0
    /\ wire = <<>>
    /\ dr_log = <<>>
    /\ accepted = <<>>
    /\ upc = "idle"
    /\ ubyte = 0
    /\ sent = TRUE
    /\ tries = 0
    /\ systick = 0
    /\ start = 0
    /\ period = 0
    /\ op = "none"
    /\ tkpc = "idle"
    /\ expired = FALSE
    /\ ready = FALSE
    /\ wait_result = "none"
    /\ elapsed = 0
    /\ compared = FALSE

\* Entry of OutputText, after the initialisers of its locals and va_start.
\* No call of I2C_CalculateCCR is made.
InitText ==
    /\ freq = 1
    /\ speed = Zero32
    /\ i = 1
    /\ prev_speed_0 = 0
    /\ ccr = 0
    /\ duty = 0
    /\ actual = 0
    /\ error = Zero32
    /\ cpc = "idle"
    /\ used = {}
    /\ exit = "none"
    /\ \E c \in Calls :
           /\ format = c.format
           /\ args = c.args
    /\ fp = 1
    /\ ap = 1
    /\ sink = <<>>
    /\ char_count = 0
    /\ tpc = "literal"
    /\ justify_left = FALSE
    /\ zero_padding = FALSE
    /\ prefix_sign = FALSE
    /\ prefix_space = FALSE
    /\ long_argument = FALSE
    /\ char_argument = FALSE
    /\ width = 0
    /\ decimals = -1
    /\ buf_in = 0
    /\ buf_out = 0
    /\ buf_size = 0
    /\ buffer = <<>>
    /\ put_log = <<>>
    /\ got_log = <<>>
    /\ tien = FALSE
    /\ txe = TRUE
    /\ dr = 0
    /\ wire = <<>>
    /\ dr_log = <<>>
    /\ accepted = <<>>
    /\ upc = "idle"
    /\ ubyte = 0
    /\ sent = TRUE
    /\ tries = 0
    /\ systick = 0
    /\ start = 0
    /\ period = 0
    /\ op = "none"
    /\ tkpc = "idle"
    /\ expired = FALSE
    /\ ready = FALSE
    /\ wait_result = "none"
    /\ elapsed = 0
    /\ compared = FALSE

\* A buffer after CircBuf_Init with a power-of-two size.  No other
\* function is called.
InitBuf ==
    /\ freq = 1
    /\ speed = Zero32
    /\ i = 1
    /\ prev_speed_0 = 0
    /\ ccr = 0
    /\ duty = 0
    /\ actual = 0
    /\ error = Zero32
    /\ cpc = "idle"
    /\ used = {}
    /\ exit = "none"
    /\ format = <<>>
    /\ args = <<>>
    /\ fp = 1
    /\ ap = 1
    /\ sink = <<>>
    /\ char_count = 0
    /\ tpc = "idle"
    /\ justify_left = FALSE
    /\ zero_padding = FALSE
    /\ prefix_sign = FALSE
    /\ prefix_space = FALSE
    /\ long_argument = FALSE
    /\ char_argument = FALSE
    /\ width = 0
    /\ decimals = -1
    /\ \E k \in 0..MaxSizeLog : CircBuf_Init(2^k)
    /\ put_log = <<>>
    /\ got_log = <<>>
    /\ tien = FALSE
    /\ txe = TRUE
    /\ dr = 0
    /\ wire = <<>>
    /\ dr_log = <<>>
    /\ accepted = <<>>
    /\ upc = "idle"
    /\ ubyte = 0
    /\ sent = TRUE
    /\ tries = 0
    /\ systick = 0
    /\ start = 0
    /\ period = 0
    /\ op = "none"
    /\ tkpc = "idle"
    /\ expired = FALSE
    /\ ready = FALSE
    /\ wait_result = "none"
    /\ elapsed = 0
    /\ compared = FALSE

\* main after CircBuf_Init, Uart2_Init, Uart2_Config9600_8N1 and
\* enableInterrupts: TIEN is clear and TXE set, their reset values.
InitUart ==
    /\ freq = 1
    /\ speed = Zero32
    /\ i = 1
    /\ prev_speed_0 = 0
    /\ ccr = 0
    /\ duty = 0
    /\ actual = 0
    /\ error = Zero32
    /\ cpc = "idle"
    /\ used = {}
    /\ exit = "none"
    /\ format = <<>>
    /\ args = <<>>
    /\ fp = 1
    /\ ap = 1
    /\ sink = <<>>
    /\ char_count = 0
    /\ tpc = "idle"
    /\ justify_left = FALSE
    /\ zero_padding = FALSE
    /\ prefix_sign = FALSE
    /\ prefix_space = FALSE
    /\ long_argument = FALSE
    /\ char_argument = FALSE
    /\ width = 0
    /\ decimals = -1
    /\ \E size \in TxBufferSizes : CircBuf_Init(size)
    /\ put_log = <<>>
    /\ got_log = <<>>
    /\ tien = FALSE
    /\ txe = TRUE
    /\ dr = 0
    /\ wire = <<>>
    /\ dr_log = <<>>
    /\ accepted = <<>>
    /\ upc = "main"
    /\ ubyte = 0
    /\ sent = TRUE
    /\ tries = 0
    /\ systick = 0
    /\ start = 0
    /\ period = 0
    /\ op = "none"
    /\ tkpc = "idle"
    /\ expired = FALSE
    /\ ready = FALSE
    /\ wait_result = "none"
    /\ elapsed = 0
    /\ compared = FALSE

\* A caller polls Systick_Timeout with its own variable, as main does, or
\* an I2C wait starts: its uint16_t timeout is not initialised.
InitTick ==
    /\ freq = 1
    /\ speed = Zero32
    /\ i = 1
    /\ prev_speed_0 = 0
    /\ ccr = 0
    /\ duty = 0
    /\ actual = 0
    /\ error = Zero32
    /\ cpc = "idle"
    /\ used = {}
    /\ exit = "none"
    /\ format = <<>>
    /\ args = <<>>
    /\ fp = 1
    /\ ap = 1
    /\ sink = <<>>
    /\ char_count = 0
    /\ tpc = "idle"
    /\ justify_left = FALSE
    /\ zero_padding = FALSE
    /\ prefix_sign = FALSE
    /\ prefix_space = FALSE
    /\ long_argument = FALSE
    /\ char_argument = FALSE
    /\ width = 0
    /\ decimals = -1
    /\ buf_in = 0
    /\ buf_out = 0
    /\ buf_size = 0
    /\ buffer = <<>>
    /\ put_log = <<>>
    /\ got_log = <<>>
    /\ tien = FALSE
    /\ txe = TRUE
    /\ dr = 0
    /\ wire = <<>>
    /\ dr_log = <<>>
    /\ accepted = <<>>
    /\ upc = "idle"
    /\ ubyte = 0
    /\ sent = TRUE
    /\ tries = 0
    /\ systick \in TickValues
    /\ \/ /\ op = "Systick_Timeout"
          /\ start \in StartValues(systick)
          /\ period \in Periods
          /\ tkpc = "compare"
       \/ /\ op \in WaitOps
          /\ start \in StaleValues(systick)
          /\ period = WaitPeriod
          /\ tkpc = "test"
    /\ expired = FALSE
    /\ ready = FALSE
    /\ wait_result = "none"
    /\ elapsed = 0
    /\ compared = FALSE

\* Calls of I2C_CalculateCCR.
SpecCcr == InitCcr /\ [][CcrNext]_vars

\* Calls of OutputText.
SpecText == InitText /\ [][TextNext]_vars

\* Calls of CircBuf_Put and CircBuf_Get.
SpecBuf == InitBuf /\ [][BufNext]_vars

\* Calls of Systick_Timeout and I2C waits, with the tick interrupt.
SpecTick == InitTick /\ [][TickNext]_vars

\* main sending bytes through UART2, the transmit interrupt and the
\* hardware.
SpecUart == InitUart /\ [][UartNext]_vars

\* The same where the hardware goes on completing transmissions, the
\* interrupt is served and main goes on running.
SpecUartFair ==
    /\ InitUart
    /\ [][UartNext]_vars
    /\ WF_vars(TxComplete)
    /\ WF_vars(UART2_TX_IRQHandler)
    /\ WF_vars(BlockingTry)

\* ------------------------------------------------------------------------
\* Properties of I2C_CalculateCCR
\* ------------------------------------------------------------------------

Dividers == 1..(CcrLimit - 1)

\* The not-found result.
Sentinel == ccr = 0 /\ duty = 0 /\ actual = 0 /\ error = Zero32

\* The duty multipliers of the regime of the requested speed.
RegimeMultipliers == IF BLt(U32(FastThreshold), speed) THEN {3, 25} ELSE {2}

\* The multiplier a returned duty stands for in the regime of the request.
DutyMultiplier(d) ==
    IF BLt(U32(FastThreshold), speed)
    THEN (IF d = 0 THEN 3 ELSE 25)
    ELSE 2

\* |speed - x| for a speed below 2^31.
Distance(x) ==
    IF Nat32(speed) >= x THEN Nat32(speed) - x ELSE x - Nat32(speed)

\* speed is in 1..freq * 1000000.
SpeedWithinClock ==
    /\ speed # Zero32
    /\ BLt(speed, U32(freq * 1000000 + 1))

\* C2: for freq in 1..255 and speed in 1..freq*1000000 the result is the
\* sentinel or a divider in 1..4095 whose frequency is at least as close to
\* speed as that of every divider under every multiplier of the regime.
C2_ClosestOverAllDuties ==
    (cpc = "done" /\ SpeedWithinClock) =>
        \/ Sentinel
        \/ /\ ccr \in Dividers
           /\ \A c \in Dividers : \A m \in RegimeMultipliers :
                  Distance(actual) <= Distance(CalcSpeed(freq, c, m))

\* Every computed frequency stays strictly above the target: no divider
\* matches it and none falls below it.
AllAboveTarget ==
    \A c \in Dividers :
        /\ BLt(speed, U32(CalcSpeed(freq, c, DutyMultiplier(0))))
        /\ \A m \in RegimeMultipliers : U32(CalcSpeed(freq, c, m)) # speed

\* C3: when every computed frequency stays above the target the all-zero
\* result is returned, and the all-zero result is returned only by running
\* the loop to its limit.
C3_NotFoundOnlyByExhaustion ==
    cpc = "done" =>
        /\ AllAboveTarget => (Sentinel /\ exit = "notfound")
        /\ Sentinel => exit = "notfound"

\* C6: a speed of at most 100000 is searched with multiplier 2 alone, a
\* speed above 100000 with multipliers 3 and 25 alone.
C6_RegimeBySpeed ==
    /\ used \subseteq RegimeMultipliers
    /\ cpc = "done" => used = RegimeMultipliers

\* The boundary speed 100000 has been searched with multiplier 2.
C6_Witness == cpc = "done" /\ speed = U32(100000) /\ used = {2}

\* Some divider reaches the target exactly under a multiplier of the regime.
ExactlyReachable ==
    \E c \in Dividers : \E m \in RegimeMultipliers :
        U32(CalcSpeed(freq, c, m)) = speed

ExactError ==
    LET s == Ext(speed, 4)
        a == Ext(U32(actual), 4)
        d == IF BLt(a, s) THEN BSub(s, a) ELSE BSub(a, s)
    IN  BDiv(BMulSmall(d, 10000), s)

\* C8: every result other than the sentinel carries the error
\* |speed - actual| * 10000 / speed (truncated), free of 32-bit wrap-around.
C8_ErrorIsExact ==
    (cpc = "done" /\ ~Sentinel) => Ext(error, 4) = ExactError

\* C9: for every result whose (ccr, duty, actual) is not the all-zero
\* triple, CalcSpeed of the returned divider under the multiplier the
\* returned duty denotes gives actual again.
C9_ActualRecomputes ==
    (cpc = "done" /\ ~(ccr = 0 /\ duty = 0 /\ actual = 0)) =>
        /\ ccr \in Dividers
        /\ CalcSpeed(freq, ccr, DutyMultiplier(duty)) = actual

\* The previous iteration's frequency has been chosen.
C9_Witness == cpc = "done" /\ exit = "previous" /\ ccr >= 1

\* C10: for any positive 32-bit speed the result is the all-zero sentinel
\* or has its divider in 1..4095.
C10_SentinelOrValidDivider ==
    (cpc = "done" /\ speed # Zero32) => (Sentinel \/ ccr \in Dividers)

\* The frequency of the divider at which the proximity decision is taken.
CurrentSpeed == CalcSpeed(freq, i, DutyMultiplier(0))

\* speed - calc_speed_0 at the proximity decision.
CurrentDistance == BSub(speed, U32(CurrentSpeed))

\* |prev_speed_0 - speed|, without wrap-around.
PreviousDistance ==
    IF BLt(U32(prev_speed_0), speed)
    THEN BSub(speed, U32(prev_speed_0))
    ELSE BSub(U32(prev_speed_0), speed)

\* C11: at the first divider whose frequency is below the target, the
\* current result (ccr = i) is returned only if the previous frequency is
\* strictly farther from the target than the current one, and when the two
\* distances are equal the previous result (ccr = i - 1, prev_speed_0) is
\* returned.
C11_TieGoesToPrevious ==
    (cpc = "done" /\ exit \in {"current", "previous"}) =>
        /\ exit = "current" =>
               /\ ccr = i
               /\ actual = CurrentSpeed
               /\ BLt(CurrentDistance, PreviousDistance)
        /\ PreviousDistance = CurrentDistance =>
               /\ exit = "previous"
               /\ ccr = i - 1
               /\ actual = prev_speed_0

\* The two distances were equal and the previous result has been returned.
C11_Witness ==
    /\ cpc = "done"
    /\ exit = "previous"
    /\ i > 1
    /\ PreviousDistance = CurrentDistance

\* The frequency of the smallest divider under multiplier m is below the
\* target.
BelowTargetAtFirstDivider(m) == BLt(U32(CalcSpeed(freq, 1, m)), speed)

\* C12: the all-zero result signals a clock too low for the requested
\* speed: it is returned whenever the frequency of the smallest divider is
\* already below the target, and only then.
C12_SentinelIffClockTooLow ==
    cpc = "done" =>
        /\ (\A m \in RegimeMultipliers : BelowTargetAtFirstDivider(m))
               => Sentinel
        /\ Sentinel
               => \E m \in RegimeMultipliers : BelowTargetAtFirstDivider(m)

\* C13: for the clock of the call and each multiplier, the frequency of a
\* divider is at most that of the divider before it, over 1..4095; and the
\* first divider whose frequency is below the target and its predecessor
\* bracket the target.
C13_CalcSpeedNonIncreasing ==
    /\ i + 1 \in Dividers =>
           \A m \in {2, 3, 25} :
               CalcSpeed(freq, i + 1, m) <= CalcSpeed(freq, i, m)
    /\ (cpc = "done" /\ exit \in {"current", "previous"} /\ i > 1) =>
           /\ prev_speed_0 = CalcSpeed(freq, i - 1, DutyMultiplier(0))
           /\ BLt(U32(CurrentSpeed), speed)
           /\ ~BLt(U32(prev_speed_0), speed)
           /\ \A c \in 1..(i - 1) :
                  ~BLt(U32(CalcSpeed(freq, c, DutyMultiplier(0))), speed)

\* The search of the highest clock has come to the last divider.
C13_Witness ==
    /\ cpc = "loop"
    /\ freq = MaxClock
    /\ i = CcrLimit - 1
    /\ CalcSpeed(freq, i, 2) < CalcSpeed(freq, 1, 2)

\* ------------------------------------------------------------------------
\* Properties of OutputText
\* ------------------------------------------------------------------------

\* The last n bytes of the runs r.
RECURSIVE LastBytes(_, _)
LastBytes(r, n) ==
    IF n <= 0 \/ r = <<>> THEN <<>>
    ELSE IF r[Len(r)][2] >= n THEN Repeat(r[Len(r)][1], n)
    ELSE LastBytes(SubSeq(r, 1, Len(r) - 1), n - r[Len(r)][2])
             \o Repeat(r[Len(r)][1], r[Len(r)][2])

\* The bytes a step passes to OutputChar.
StepOutput ==
    LastBytes(sink', RunsLength(sink', 1, Len(sink')) - BytesSent)

\* The index of the last '%' at or before index k of the format.
RECURSIVE PercentBefore(_)
PercentBefore(k) ==
    IF k <= 1 \/ format[k] = Percent THEN k ELSE PercentBefore(k - 1)

\* The index of the '%' that opened the directive being read.
DirectiveStart == PercentBefore(fp - 1)

\* The characters of the directive read so far, after its '%'.
DirectiveText == SubSeq(format, DirectiveStart + 1, fp - 1)

\* The digits written in the width field: those before any '.'.
WidthField ==
    LET d   == DirectiveText
        dot == IF \E k \in 1..Len(d) : d[k] = Code(".")
               THEN CHOOSE k \in 1..Len(d) :
                        /\ d[k] = Code(".")
                        /\ \A j \in 1..(k - 1) : d[j] # Code(".")
               ELSE Len(d) + 1
    IN  SelectSeq(SubSeq(d, 1, dot - 1), IsDigit)

\* The digits written in the precision field: those after the first '.'.
PrecisionField ==
    LET d == DirectiveText
    IN  IF \E k \in 1..Len(d) : d[k] = Code(".")
        THEN LET dot == CHOOSE k \in 1..Len(d) :
                            /\ d[k] = Code(".")
                            /\ \A j \in 1..(k - 1) : d[j] # Code(".")
             IN  SelectSeq(SubSeq(d, dot + 1, Len(d)), IsDigit)
        ELSE <<>>

\* The number a sequence of decimal digits denotes.
RECURSIVE DecimalValue(_)
DecimalValue(ds) ==
    IF ds = <<>> THEN 0
    ELSE 10 * DecimalValue(SubSeq(ds, 1, Len(ds) - 1))
             + (ds[Len(ds)] - Code("0"))

\* The width w written in the directive (0 when none is written).
WrittenWidth == DecimalValue(WidthField)

\* The zero-pad flag as written: the width field starts with a 0.
WrittenZeroPad == WidthField # <<>> /\ WidthField[1] = Code("0")

\* The flag or length character ch is written in the directive.
WrittenFlag(ch) ==
    \E k \in 1..Len(DirectiveText) : DirectiveText[k] = Code(ch)

\* The next step is an integer conversion of an argument of the call.
IntegerStep ==
    /\ tpc = "directive"
    /\ fp <= Len(format)
    /\ format[fp] \in {Code("d"), Code("i"), Code("p"), Code("u"), Code("x")}
    /\ ap <= Len(args)
    /\ args[ap].kind = "int"

\* The conversion character read is d or i.
SignedConversion == format[fp] \in {Code("d"), Code("i")}

\* The argument of the integer conversion, in the size the directive names.
ArgumentValue ==
    IF WrittenFlag("b") THEN CharArgument(args[ap].int, SignedConversion)
    ELSE IF WrittenFlag("l") THEN LongArgument(args[ap].int)
    ELSE IntArgument(args[ap].int, SignedConversion)

ArgumentNegative == SignedConversion /\ IsNegative32(ArgumentValue)

\* The magnitude of the argument.
ArgumentMagnitude ==
    IF ArgumentNegative THEN BSub(Zero32, ArgumentValue) ELSE ArgumentValue

\* The character of the digit d: 0-9, then A-F.
DigitChar(d) == IF d < 10 THEN Code("0") + d ELSE Code("A") + (d - 10)

\* The digits of v in radix rdx by repeated division, most significant
\* first, without leading zeros; zero is the single digit 0.
RECURSIVE MoreDigits(_, _)
MoreDigits(v, rdx) ==
    IF v = Zero32 THEN <<>>
    ELSE LET qr == BDivMod(v, U32(rdx))
         IN  MoreDigits(qr[1], rdx) \o <<DigitChar(qr[2][1])>>

NumberDigits(v, rdx) ==
    IF v = Zero32 THEN <<Code("0")>> ELSE MoreDigits(v, rdx)

\* The digits the integer conversion is to send.
ArgumentDigits ==
    NumberDigits(ArgumentMagnitude, IF format[fp] = Code("x") THEN 16 ELSE 10)

\* The sign character the integer conversion is to send, if any.
ArgumentSign ==
    IF ArgumentNegative THEN <<Code("-")>>
    ELSE IF WrittenFlag("+") THEN <<Code("+")>>
    ELSE IF WrittenFlag(" ") THEN <<Space>>
    ELSE <<>>

\* The spaces or zeros that fill sign and digits up to the width w.
Padding(c, w) ==
    Repeat(c, IF w > Len(ArgumentSign) + Len(ArgumentDigits)
              THEN w - Len(ArgumentSign) - Len(ArgumentDigits) ELSE 0)

\* Largest width the uint8_t width holds.
MaxWidth == 255

\* Largest precision the int8_t decimals holds.
MaxPrecision == 127

\* The precision written in the directive (0 when none is written).
WrittenPrecision == DecimalValue(PrecisionField)

\* The width and the precision written in the directive are numbers their
\* 8-bit variables hold.
WithinRanges ==
    WrittenWidth <= MaxWidth /\ WrittenPrecision <= MaxPrecision

\* C14 as stated: an integer conversion with width w, no '-' flag and no
\* zero-pad flag sends spaces, then the sign character if any, then the
\* digits, max(w, digits + sign characters) characters in all.
C14_SpacesSignDigits ==
    [][(IntegerStep /\ ~WrittenFlag("-") /\ ~WrittenZeroPad) =>
          StepOutput = Padding(Space, WrittenWidth) \o ArgumentSign
                           \o ArgumentDigits]_vars

\* C14 as amended: the same for every width w up to 255 and precision up
\* to 127, the largest the uint8_t width and the int8_t decimals hold.
C14_SpacesSignDigitsUpTo255 ==
    [][(IntegerStep /\ ~WrittenFlag("-") /\ ~WrittenZeroPad
           /\ WithinRanges) =>
          /\ StepOutput = Padding(Space, WrittenWidth) \o ArgumentSign
                              \o ArgumentDigits
          /\ char_count' = (char_count + Len(StepOutput)) % (2^16)]_vars

\* "%5d" with 42 has sent three spaces and 42 and returned 5.
C14_Witness ==
    /\ tpc = "done"
    /\ format = Text(<<"%", "5", "d">>)
    /\ args = <<IntArg(42)>>
    /\ sink = <<<<Space, 3>>, <<Code("4"), 1>>, <<Code("2"), 1>>>>
    /\ char_count = 5

\* C15 as stated: an integer conversion with the '-' flag and width w sends
\* the sign character if any, then the digits, then spaces, and nothing
\* before the sign; max(w, digits + sign characters) characters in all.
C15_SignDigitsSpaces ==
    [][(IntegerStep /\ WrittenFlag("-")) =>
          StepOutput = ArgumentSign \o ArgumentDigits
                           \o Padding(Space, WrittenWidth)]_vars

\* C15 as amended: the same for every width w up to 255 and precision up
\* to 127.
C15_SignDigitsSpacesUpTo255 ==
    [][(IntegerStep /\ WrittenFlag("-") /\ WithinRanges) =>
          /\ StepOutput = ArgumentSign \o ArgumentDigits
                              \o Padding(Space, WrittenWidth)
          /\ char_count' = (char_count + Len(StepOutput)) % (2^16)]_vars

\* "A%-5d|" with 42 has sent A, 42, three spaces and the bar.
C15_Witness ==
    /\ tpc = "done"
    /\ format = Text(<<"A", "%", "-", "5", "d", "|">>)
    /\ args = <<IntArg(42)>>
    /\ sink = <<<<Code("A"), 1>>, <<Code("4"), 1>>, <<Code("2"), 1>>,
                <<Space, 3>>, <<Code("|"), 1>>>>
    /\ char_count = 7

\* C16 as stated: an integer conversion with the zero-pad flag and no '-'
\* flag sends the sign character if any, then zeros, then the digits,
\* max(w, digits + sign characters) characters in all, and no padding
\* space.
C16_SignZerosDigits ==
    [][(IntegerStep /\ WrittenZeroPad /\ ~WrittenFlag("-")) =>
          StepOutput = ArgumentSign \o Padding(Code("0"), WrittenWidth)
                           \o ArgumentDigits]_vars

\* C16 as amended: the same for every width w up to 255 and precision up
\* to 127.
C16_SignZerosDigitsUpTo255 ==
    [][(IntegerStep /\ WrittenZeroPad /\ ~WrittenFlag("-")
           /\ WithinRanges) =>
          /\ StepOutput = ArgumentSign \o Padding(Code("0"), WrittenWidth)
                              \o ArgumentDigits
          /\ char_count' = (char_count + Len(StepOutput)) % (2^16)]_vars

\* "%05d" with -42 has sent the sign, two zeros and 42.
C16_Witness ==
    /\ tpc = "done"
    /\ format = Text(<<"%", "0", "5", "d">>)
    /\ args = <<IntArg(-42)>>
    /\ sink = <<<<Code("-"), 1>>, <<Code("0"), 2>>, <<Code("4"), 1>>,
                <<Code("2"), 1>>>>
    /\ char_count = 5

\* A directive of the format string is being read.
ReadingDirective == tpc = "directive" /\ fp <= Len(format) + 1

\* C17 as stated: in a directive the zero-pad flag is set exactly when the
\* first digit of the width field is a 0, and that 0 adds nothing to the
\* width.
C17_ZeroFlagIffLeadingZero ==
    ReadingDirective =>
        /\ zero_padding = WrittenZeroPad
        /\ WrittenWidth <= MaxWidth => width = WrittenWidth

\* C17 as amended: the same in a directive whose width is at most 255 and
\* whose precision is at most 127.
C17_ZeroFlagIffLeadingZeroInRange ==
    (ReadingDirective /\ WithinRanges) =>
        /\ zero_padding = WrittenZeroPad
        /\ width = WrittenWidth

\* The width field 05 has been read: the flag is set and the width is 5.
C17_Witness ==
    /\ ReadingDirective
    /\ WidthField = Text(<<"0", "5">>)
    /\ zero_padding
    /\ width = 5

\* The next step is an x conversion of an argument of the call.
HexStep == IntegerStep /\ format[fp] = Code("x")

\* The output out is the hexadecimal digits of the argument, taken as
\* unsigned, most significant first, in 0-9 and A-F, with nothing before
\* them but padding and the sign character of a '+' or ' ' flag, zeros only
\* under the zero-pad flag, and nothing after them but spaces.
IsHexOutput(out) ==
    \E k \in 0..(Len(out) - Len(ArgumentDigits)) :
        /\ SubSeq(out, k + 1, k + Len(ArgumentDigits)) = ArgumentDigits
        /\ \A j \in 1..k :
               \/ out[j] \in {Space, Code("+")}
               \/ out[j] = Code("0") /\ WrittenZeroPad
        /\ \A j \in (k + Len(ArgumentDigits) + 1)..Len(out) : out[j] = Space

\* C18 as stated: the x conversion sends the argument as unsigned
\* hexadecimal, most significant digit first, in the digits 0-9 and A-F,
\* without prefix and without leading zeros other than those of a
\* zero-padded width.
C18_HexUppercase == [][HexStep => IsHexOutput(StepOutput)]_vars

\* C18 as amended: the same when the written width is at most 255 and the
\* written precision at most 127.
C18_HexUppercaseInRange ==
    [][(HexStep /\ WithinRanges) => IsHexOutput(StepOutput)]_vars

\* "%08lx" with 0xDEADBEEF has sent DEADBEEF and returned 8.
C18_Witness ==
    /\ tpc = "done"
    /\ format = Text(<<"%", "0", "8", "l", "x">>)
    /\ sink = <<<<Code("D"), 1>>, <<Code("E"), 1>>, <<Code("A"), 1>>,
                <<Code("D"), 1>>, <<Code("B"), 1>>, <<Code("E"), 2>>,
                <<Code("F"), 1>>>>
    /\ char_count = 8

\* The next step is an s conversion of a string argument of the call.
StringStep ==
    /\ tpc = "directive"
    /\ fp <= Len(format)
    /\ format[fp] = Code("s")
    /\ ap <= Len(args)
    /\ args[ap].kind = "str"

\* The first min(length, p) characters of the string argument, all of it
\* when the directive has no precision.
PrintedString ==
    LET str == args[ap].str
    IN  IF ~WrittenFlag(".") \/ WrittenPrecision >= Len(str) THEN str
        ELSE SubSeq(str, 1, WrittenPrecision)

\* The spaces that bring the printed characters up to the width w.
StringPadding ==
    Repeat(Space, IF WrittenWidth > Len(PrintedString)
                  THEN WrittenWidth - Len(PrintedString) ELSE 0)

\* C19: an s conversion with width w and optional precision p sends the
\* first min(length, p) characters of the string, with spaces before them,
\* or after them under the '-' flag, max(w, characters printed) characters
\* in all.
C19_StringPaddedToWidth ==
    [][StringStep =>
           StepOutput = IF WrittenFlag("-")
                        THEN PrintedString \o StringPadding
                        ELSE StringPadding \o PrintedString]_vars

\* The next step reads a '%' just after the '%' that opened a directive.
DoublePercentStep ==
    /\ tpc = "directive"
    /\ fp <= Len(format)
    /\ format[fp] = Percent
    /\ DirectiveStart = fp - 1

\* The next step reads a character of the format outside a directive,
\* other than the '%' that opens one.
LiteralStep ==
    /\ tpc = "literal"
    /\ fp <= Len(format)
    /\ format[fp] # Percent

\* The step sends the character it read and nothing else, adds one to the
\* uint16_t count, takes no argument and leaves the scan copying literally.
CopiesOneCharacter ==
    /\ StepOutput = <<format[fp]>>
    /\ char_count' = (char_count + 1) % 2^16
    /\ ap' = ap
    /\ fp' = fp + 1
    /\ tpc' = "literal"

\* C20: a '%' that follows the '%' opening a directive sends one '%',
\* counts one, takes no argument and returns the scan to literal copying;
\* every character outside a directive is sent unchanged and counted once.
C20_DoublePercentAndLiterals ==
    [][(DoublePercentStep \/ LiteralStep) => CopiesOneCharacter]_vars

\* "100%%" has sent 100% and returned 4 without taking an argument.
C20_Witness ==
    /\ tpc = "done"
    /\ format = Text(<<"1", "0", "0", "%", "%">>)
    /\ sink = <<<<Code("1"), 1>>, <<Code("0"), 2>>, <<Percent, 1>>>>
    /\ char_count = 4
    /\ ap = 1

\* A double percent has been counted when the count stood at 65535.
C20_WrapWitness ==
    /\ tpc = "literal"
    /\ fp > 1
    /\ fp <= Len(format)
    /\ format[fp - 1] = Percent
    /\ BytesSent = 2^16
    /\ char_count = 0

\* The next step reads, inside a directive, a character of the format that
\* is no conversion, flag, digit, '.' or '%'.
UnknownStep ==
    /\ tpc = "directive"
    /\ fp <= Len(format)
    /\ format[fp] \notin ConversionChars \cup FlagChars
                             \cup {Percent, Code(".")}
    /\ ~IsDigit(format[fp])

\* The step opens a directive or reads a flag, a digit or a '.' of one.
StaysInDirective ==
    /\ fp <= Len(format)
    /\ tpc' = "directive"

\* The step sends nothing, counts nothing and takes no argument.
SendsNothing ==
    /\ sink' = sink
    /\ char_count' = char_count
    /\ ap' = ap

\* C21: a character ending a directive that is no conversion, flag, digit,
\* '.' or '%' is sent as it is and counted once, no argument is taken, the
\* scan goes on copying literally, and the directive sends nothing else:
\* the steps that opened it and read its flags and digits sent nothing.
C21_UnknownConversionCopied ==
    [][/\ UnknownStep => CopiesOneCharacter
       /\ StaysInDirective => SendsNothing]_vars

\* "%5q" has sent q alone and returned 1 without taking an argument.
C21_Witness ==
    /\ tpc = "done"
    /\ format = Text(<<"%", "5", "q">>)
    /\ sink = <<<<Code("q"), 1>>>>
    /\ char_count = 1
    /\ ap = 1

\* The next step reads, inside a directive, a conversion character of the
\* format.
ConversionStep ==
    /\ tpc = "directive"
    /\ fp <= Len(format)
    /\ format[fp] \in ConversionChars

NotSpace(ch) == ch # Space

\* The sequence out ends with the sequence part.
EndsWith(part, out) ==
    /\ Len(part) <= Len(out)
    /\ SubSeq(out, Len(out) - Len(part) + 1, Len(out)) = part

\* The bytes of the step are those of the argument at ap: for an integer
\* conversion its digits, which end the bytes that are not spaces, for c
\* its low byte, and for s without a precision its characters, apart from
\* the padding.
ShowsNextArgument ==
    /\ IntegerStep
           => EndsWith(ArgumentDigits, SelectSeq(StepOutput, NotSpace))
    /\ (format[fp] = Code("c") /\ ap <= Len(args) /\ args[ap].kind = "int")
           => StepOutput = <<ToUint8(args[ap].int)>>
    /\ (StringStep /\ ~WrittenFlag("."))
           => SelectSeq(StepOutput, NotSpace) = args[ap].str

\* The bytes sent before the step are still the first bytes of the sink,
\* in the same order.
AppendsToSink ==
    /\ Len(sink') >= Len(sink)
    /\ sink # <<>> =>
           /\ SubSeq(sink', 1, Len(sink) - 1) = SubSeq(sink, 1, Len(sink) - 1)
           /\ sink'[Len(sink)][1] = sink[Len(sink)][1]
           /\ sink'[Len(sink)][2] >= sink[Len(sink)][2]

\* C22: the arguments are taken strictly left to right.  The format is
\* read one character after the other; a step that completes a d, i, u, p,
\* x, c or s directive takes exactly the next argument and sends its
\* bytes; every other step on a character of the format (a literal, "%%",
\* an unknown conversion, a flag or a digit) takes none; and the bytes of a
\* step are sent after all the bytes of the steps before it.
C22_ArgumentsLeftToRight ==
    [][/\ fp' = fp + 1
       /\ AppendsToSink
       /\ ConversionStep => (ap' = ap + 1 /\ ShowsNextArgument)
       /\ (fp <= Len(format) /\ ~ConversionStep) => ap' = ap]_vars

\* "%d%c" with 42 and 66 has sent 42B and taken both arguments.
C22_Witness ==
    /\ tpc = "done"
    /\ format = Text(<<"%", "d", "%", "c">>)
    /\ sink = <<<<Code("4"), 1>>, <<Code("2"), 1>>, <<Code("B"), 1>>>>
    /\ ap = 3

\* ------------------------------------------------------------------------
\* Properties of the circular buffer
\* ------------------------------------------------------------------------

\* The size N the buffer was initialised with.
BufferSize == buf_size + 1

\* The number of bytes put and not yet got.
Stored == Len(put_log) - Len(got_log)

\* C28: for a power-of-two size N, with CircBuf_Put called only when the
\* buffer is not full and CircBuf_Get only when it is not empty, in and out
\* stay in 0..N-1, CircBuf_Used is the number of bytes put and not yet got
\* and is at most N-1, CircBuf_IsFull holds exactly when that number is
\* N-1, and the bytes got are the bytes put, in the same order.
C28_BufferIsFifo ==
    /\ buf_in \in 0..(BufferSize - 1)
    /\ buf_out \in 0..(BufferSize - 1)
    /\ CircBuf_Used = Stored
    /\ Stored <= BufferSize - 1
    /\ CircBuf_IsFull <=> Stored = BufferSize - 1
    /\ Len(got_log) <= Len(put_log)
    /\ got_log = SubSeq(put_log, 1, Len(got_log))

\* A buffer of size 4 has taken 6 bytes and given 3: it is full, in has
\* wrapped and is behind out.
C28_Witness ==
    /\ BufferSize = 4
    /\ put_log = <<65, 66, 66, 65, 65, 66>>
    /\ got_log = <<65, 66, 66>>
    /\ buf_in = 2
    /\ buf_out = 3
    /\ CircBuf_IsFull

\* C29: CircBuf_PercentUsed returns CircBuf_Used * 100 / N for a buffer of
\* size N in every reachable state, the empty buffer included, and never
\* divides by zero.
C29_PercentUsed ==
    CircBuf_PercentUsed = {(CircBuf_Used * 100) \div BufferSize}

\* ------------------------------------------------------------------------
\* Properties of UART2 transmission
\* ------------------------------------------------------------------------

\* The bytes the transmit buffer holds, oldest first.
BufferContents ==
    [k \in 1..Stored |-> buffer[And16(buf_out + k - 1, buf_size)]]

\* The byte written to the data register that the shift register has not
\* taken yet.
PendingByte == IF txe THEN <<>> ELSE <<dr>>

\* C23: with Uart2_SendByte atomic, in every interleaving of its calls,
\* the transmit interrupt and the hardware, the bytes written to UART2->DR
\* are the bytes Uart2_SendByte returned true for, in the same order: the
\* accepted bytes are those written followed by those still in the buffer,
\* and every byte written is taken by the shift register before the next
\* one is written.
C23_WrittenInOrderAccepted ==
    /\ accepted = dr_log \o BufferContents
    /\ dr_log = wire \o PendingByte

\* Bytes went to the data register directly and through a buffer of size
\* 4, which filled up and was emptied again.
C23_Witness ==
    /\ BufferSize = 4
    /\ Len(accepted) = MaxSends
    /\ Len(put_log) > BufferSize
    /\ Len(put_log) < MaxSends
    /\ dr_log = accepted
    /\ wire = accepted
    /\ ~tien

\* A step gets a byte from the buffer, or puts one in it.
GetsByte == got_log' # got_log

PutsByte == put_log' # put_log

\* C24: between the calls of Uart2_SendByte and the runs of the handler
\* the transmit interrupt is enabled exactly when the transmit buffer is
\* not empty; the handler never gets from an empty buffer and
\* Uart2_SendByte never puts in a full one.
C24_InterruptIffBufferUsed ==
    [][/\ tien <=> Stored > 0
       /\ tien' <=> Len(put_log') > Len(got_log')
       /\ GetsByte => Stored > 0
       /\ PutsByte => Stored < BufferSize - 1]_vars

\* The handler has sent the last byte of the buffer and disabled the
\* transmit interrupt, after the buffer had been full.
C24_Witness ==
    /\ ~tien
    /\ Stored = 0
    /\ Len(got_log) >= BufferSize - 1
    /\ Len(got_log) > 0
    /\ ~sent

\* A step is a call of Uart2_SendByte: not a run of the handler, a
\* completed transmission or the entry of Uart2_BlockingSendByte.
SendByteStep ==
    /\ ~GetsByte
    /\ wire' = wire
    /\ ~(upc = "main" /\ upc' = "blocking")

\* The byte Uart2_SendByte is called with.
SendByteArgument == IF upc = "blocking" THEN ubyte ELSE NextByte

\* C25: Uart2_SendByte returns false only when the transmit interrupt is
\* enabled and the buffer full, and then changes neither the buffer, its
\* indices, UART2->DR nor the interrupt enable; in every other case it
\* returns true and the byte is written to UART2->DR or put in the buffer.
C25_RejectsOnlyWhenFull ==
    [][SendByteStep =>
           /\ ~sent' <=> (tien /\ Stored = BufferSize - 1)
           /\ ~sent' => UNCHANGED <<buffer, buf_in, buf_out, dr, dr_log,
                                    tien, accepted>>
           /\ sent' =>
                  /\ accepted' = Append(accepted, SendByteArgument)
                  /\ \/ /\ dr' = SendByteArgument
                        /\ dr_log' = Append(dr_log, SendByteArgument)
                        /\ UNCHANGED <<buffer, buf_in, buf_out>>
                     \/ /\ buffer' = [buffer EXCEPT
                                         ![buf_in] = SendByteArgument]
                        /\ put_log' = Append(put_log, SendByteArgument)
                        /\ UNCHANGED <<dr, dr_log>>]_vars

\* A call of Uart2_SendByte was rejected: the buffer, of size 4, holds 3
\* bytes and the transmit interrupt is enabled.
C25_Witness ==
    /\ ~sent
    /\ tien
    /\ BufferSize = 4
    /\ Stored = 3
    /\ upc = "main"

\* C26: with the hardware completing transmissions and the handler served,
\* Uart2_BlockingSendByte returns for every byte, also when the buffer is
\* full at the call, and the byte has been accepted exactly once: at the
\* return, and not in the calls of the loop before.
C26_BlockingSendReturns ==
    /\ (upc = "blocking") ~> (upc = "main")
    /\ [][upc = "blocking" =>
              accepted' = IF upc' = "main" THEN Append(accepted, ubyte)
                          ELSE accepted]_vars

\* Uart2_BlockingSendByte has returned after finding the buffer full.
C26_Witness ==
    /\ upc = "main"
    /\ tries >= 2
    /\ accepted # <<>>
    /\ accepted[Len(accepted)] = ubyte

\* ------------------------------------------------------------------------
\* Properties of the system tick and the I2C waits
\* ------------------------------------------------------------------------

\* The ticks from the value in *start to now, modulo 2^16.
TicksSinceStart == (systick - start) % (2^16)

\* The step is one of the program, not of the tick interrupt or the I2C
\* hardware.
ProgramStep == systick' = systick /\ ready' = ready

\* C27: Systick_Timeout(start, period) returns true exactly when
\* (systick - *start) mod 2^16 >= period, also across the wrap of the
\* counter; when it returns true *start is the value systick has then, and
\* when it returns false *start is unchanged.  Nothing else changes *start.
C27_TimeoutModulo ==
    [][/\ (ProgramStep /\ tkpc = "compare") =>
              /\ (tkpc' = "reset") <=> (TicksSinceStart >= period)
              /\ tkpc' # "reset" => ~expired'
              /\ start' = start
       /\ (ProgramStep /\ tkpc = "reset") =>
              /\ expired'
              /\ start' = systick
       /\ ~(ProgramStep /\ tkpc = "reset") => start' = start]_vars

\* Systick_Timeout has found the period over with systick wrapped to a
\* value below *start.
C27_Witness ==
    /\ tkpc = "reset"
    /\ op = "Systick_Timeout"
    /\ systick < start
    /\ TicksSinceStart = period
    /\ period = WaitPeriod
    /\ elapsed > 0

\* C30: an I2C wait returns false only when WaitPeriod ticks or more have
\* passed since the call started, whatever its timeout variable held, and
\* it is no longer waiting once more than WaitPeriod ticks have passed.
C30_WaitsFullPeriod ==
    /\ (op \in WaitOps /\ wait_result = "false") => elapsed >= WaitPeriod
    /\ (op \in WaitOps /\ tkpc \in {"test", "compare"})
           => elapsed <= WaitPeriod

\* C1 as stated: the count OutputText holds, and returns, is exactly the
\* number of bytes it has passed to the sink.
C1_CountEqualsBytesSent == char_count = BytesSent

\* C1 as amended: the count is the number of bytes passed to the sink
\* modulo 65536 (the count is a uint16_t), so the two are equal whenever
\* fewer than 65536 bytes have been sent; every byte sent changes the count
\* by one and nothing else changes it.
C1_CountIsBytesSentModulo ==
    /\ char_count = BytesSent % (2^16)
    /\ BytesSent < 2^16 => char_count = BytesSent

\* A call has returned after sending more than 65535 bytes.
C1_Witness ==
    /\ tpc = "done"
    /\ BytesSent > 2^16
    /\ char_count = BytesSent - 2^16

\* The character about to be read is the terminating null, inside a
\* directive.
EndsInsideDirective == tpc = "directive" /\ fp = Len(format) + 1

\* C4: when the format ends inside a directive the directive is abandoned:
\* no byte is sent for it, the count is not changed, and OutputText returns.
C4_TruncatedDirectiveAbandoned ==
    [][EndsInsideDirective =>
          (sink' = sink /\ char_count' = char_count /\ tpc' = "done")]_vars

\* C5: the scan stops at the terminating null: no character beyond it is
\* read (fp is the index of the next character to read, and the null is at
\* index Len(format) + 1).
C5_ScanStopsAtTerminator == fp <= Len(format) + 2

====
